---- MODULE Spec2Model ----
(***************************************************************************)
(* Model of run.py: CSV "peak contacts" exports are scanned, a period      *)
(* label is derived from a free-text date, records are grouped by label    *)
(* and rendered as report pages, an index and an alias of the latest page. *)
(*                                                                         *)
(* Python strings are sequences of one-character strings, so that          *)
(* parsing, formatting, prefix tests and string ordering are computed      *)
(* character by character.  An optional value (None or a value) is <<>>    *)
(* or <<value>>.                                                           *)
(***************************************************************************)
EXTENDS Integers, Sequences, FiniteSets, TLC

VARIABLES
    pc,             \* position of the program under the current specification
    triple,         \* the (year, month, day) and format date_string was built from
    date_string,    \* parse_date: its argument
    parsed_date,    \* parse_date: its return value (optional datetime)
    date,           \* process_csv_file line 58: the "%B-%y" label (optional)
    rows,           \* process_csv_file: the rows the csv reader yields
    result,         \* process_csv_file: its return value (<<>> is None)
    log,            \* log records emitted (DEBUG lines are not modelled)
    raised,         \* TRUE when an exception has escaped the operation
    report_files,   \* generate_index_html: its argument; main line 201
    index_html,     \* generate_index_html: the links of the returned page
    directory,      \* entries of the working directory, in os.listdir order
    csv_files,      \* main line 183
    cursor,         \* main line 186: files of csv_files already handled
    data_by_date,   \* main line 180 (insertion-ordered dictionary)
    latest_date,    \* main line 181 (optional label)
    output_dir,     \* files of output/: name -> content
    written,        \* names written to output/ by the current run of main
    runs            \* number of runs of main started so far

vars == <<pc, triple, date_string, parsed_date, date, rows, result, log, raised,
          report_files, index_html, directory, csv_files, cursor,
          data_by_date, latest_date, output_dir, written, runs>>

(***************************************************************************)
(* Bounds of the model                                                     *)
(***************************************************************************)
MaxYear == 2024     \* years of the date triples: 2023 .. MaxYear, and 1900, 2000
MaxRows == 5        \* rows of a CSV file given to process_csv_file
MaxPeriods == 3     \* entries of the mapping given to generate_index_html
MaxFiles == 2       \* entries of the working directory
MaxRuns == 2        \* runs of main over the (changing) directory

(***************************************************************************)
(* Characters and strings                                                  *)
(***************************************************************************)
\* The characters used, in code-point order.
Alphabet ==
    <<" ", "(", ")", ",", "-", ".", "/",
      "0", "1", "2", "3", "4", "5", "6", "7", "8", "9",
      "A", "B", "C", "D", "E", "F", "G", "H", "I", "J", "K", "L", "M",
      "N", "O", "P", "Q", "R", "S", "T", "U", "V", "W", "X", "Y", "Z", "_",
      "a", "b", "c", "d", "e", "f", "g", "h", "i", "j", "k", "l", "m",
      "n", "o", "p", "q", "r", "s", "t", "u", "v", "w", "x", "y", "z">>

Ord == [c \in {Alphabet[i] : i \in 1..Len(Alphabet)} |->
            CHOOSE i \in 1..Len(Alphabet) : Alphabet[i] = c]

Digits == <<"0", "1", "2", "3", "4", "5", "6", "7", "8", "9">>

CharsBetween(lo, hi) == {Alphabet[i] : i \in Ord[lo]..Ord[hi]}
DigitChars == CharsBetween("0", "9")
UpperChars == CharsBetween("A", "Z")
LowerChars == CharsBetween("a", "z")
WordChars == DigitChars \cup UpperChars \cup LowerChars \cup {"_"}
ToLower == [c \in DOMAIN Ord |->
               IF c \in UpperChars THEN Alphabet[Ord[c] - Ord["A"] + Ord["a"]] ELSE c]
DigitValue == [c \in DigitChars |-> Ord[c] - Ord["0"]]

IsDigit(c) == c \in DigitChars
DigitVal(c) == DigitValue[c]
\* regex \w and \s over the characters used
IsWordChar(c) == c \in WordChars
IsSpace(c) == c = " "
\* str.lower on one character (the regular expressions of strptime ignore case)
Lower(c) == ToLower[c]

\* s[i] when i is a position of s, and a character that matches nothing otherwise
At(s, i) == IF i >= 1 /\ i <= Len(s) THEN s[i] ELSE "."

\* str.startswith and str.endswith
StartsWith(s, p) == Len(p) <= Len(s) /\ SubSeq(s, 1, Len(p)) = p
EndsWith(s, p) == Len(p) <= Len(s) /\ SubSeq(s, Len(s) - Len(p) + 1, Len(s)) = p

\* Python's < on strings: code-point lexicographic order
RECURSIVE StrLessFrom(_, _, _)
StrLessFrom(a, b, i) ==
    IF i > Len(a) THEN i <= Len(b)
    ELSE IF i > Len(b) THEN FALSE
    ELSE IF a[i] = b[i] THEN StrLessFrom(a, b, i + 1)
    ELSE Ord[a[i]] < Ord[b[i]]

StrLess(a, b) == StrLessFrom(a, b, 1)

\* str.replace of one character by another
Replace(s, old, new) == [i \in 1..Len(s) |-> IF s[i] = old THEN new ELSE s[i]]

(***************************************************************************)
(* datetime.strptime and datetime.strftime                                 *)
(***************************************************************************)
MonthNames ==
    << <<"J", "a", "n", "u", "a", "r", "y">>,
       <<"F", "e", "b", "r", "u", "a", "r", "y">>,
       <<"M", "a", "r", "c", "h">>,
       <<"A", "p", "r", "i", "l">>,
       <<"M", "a", "y">>,
       <<"J", "u", "n", "e">>,
       <<"J", "u", "l", "y">>,
       <<"A", "u", "g", "u", "s", "t">>,
       <<"S", "e", "p", "t", "e", "m", "b", "e", "r">>,
       <<"O", "c", "t", "o", "b", "e", "r">>,
       <<"N", "o", "v", "e", "m", "b", "e", "r">>,
       <<"D", "e", "c", "e", "m", "b", "e", "r">> >>

IsLeap(y) == (y % 4 = 0 /\ y % 100 # 0) \/ y % 400 = 0

DaysInMonth(y, m) ==
    IF m = 2 THEN (IF IsLeap(y) THEN 29 ELSE 28)
    ELSE IF m \in {4, 6, 9, 11} THEN 30 ELSE 31

\* date_formats mutated: the third format reads day/month/year
date_formats_day_first ==
    << <<"%B", " ", "%d", ",", " ", "%Y">>,
       <<"%B", " ", "%d">>,
       <<"%d", "/", "%m", "/", "%Y">>,
       <<"%Y", "/", "%m", "/", "%d">>,
       <<"%d", "-", "%m", "-", "%Y">>,
       <<"%Y", "-", "%m", "-", "%d">> >>

\* A format is a sequence of tokens: a directive ("%B", "%d", "%m", "%Y",
\* "%y") or a literal character; strptime turns a blank of the format into \s+.
\* The six formats of parse_date, in the order they are tried.
date_formats ==
    << <<"%B", " ", "%d", ",", " ", "%Y">>,
       <<"%B", " ", "%d">>,
       <<"%m", "/", "%d", "/", "%Y">>,
       <<"%Y", "/", "%m", "/", "%d">>,
       <<"%d", "-", "%m", "-", "%Y">>,
       <<"%Y", "-", "%m", "-", "%d">> >>

\* The format of the fallback's strptime call (line 34) and of the label (line 58)
fallback_format == <<"%B", " ", "%d", " ", "%Y">>
label_format == <<"%B", "-", "%y">>

\* The month whose name s carries at position i, compared without case (0: none)
MonthAt(s, i) ==
    LET Hit(m) == /\ i + Len(MonthNames[m]) - 1 <= Len(s)
                  /\ \A j \in 1..Len(MonthNames[m]) :
                        Lower(s[i + j - 1]) = Lower(MonthNames[m][j])
    IN  IF \E m \in 1..12 : Hit(m) THEN CHOOSE m \in 1..12 : Hit(m) ELSE 0

\* Number of blanks of s from position i on
RECURSIVE SpacesAt(_, _)
SpacesAt(s, i) == IF IsSpace(At(s, i)) /\ i <= Len(s) THEN 1 + SpacesAt(s, i + 1) ELSE 0

\* %d is (3[0-1]|[1-2]\d|0[1-9]|[1-9]| [1-9]): <<width, value>>, width 0: no match
DayAt(s, i) ==
    LET a == At(s, i)
        b == At(s, i + 1)
    IN  IF a = "3" /\ b \in {"0", "1"} THEN <<2, 30 + DigitVal(b)>>
        ELSE IF a \in {"1", "2"} /\ IsDigit(b) THEN <<2, 10 * DigitVal(a) + DigitVal(b)>>
        ELSE IF a = "0" /\ IsDigit(b) /\ b # "0" THEN <<2, DigitVal(b)>>
        ELSE IF IsDigit(a) /\ a # "0" THEN <<1, DigitVal(a)>>
        ELSE IF a = " " /\ i <= Len(s) /\ IsDigit(b) /\ b # "0" THEN <<2, DigitVal(b)>>
        ELSE <<0, 0>>

\* %m is (1[0-2]|0[1-9]|[1-9])
MonthNumAt(s, i) ==
    LET a == At(s, i)
        b == At(s, i + 1)
    IN  IF a = "1" /\ b \in {"0", "1", "2"} THEN <<2, 10 + DigitVal(b)>>
        ELSE IF a = "0" /\ IsDigit(b) /\ b # "0" THEN <<2, DigitVal(b)>>
        ELSE IF IsDigit(a) /\ a # "0" THEN <<1, DigitVal(a)>>
        ELSE <<0, 0>>

\* %Y is \d\d\d\d
YearAt(s, i) ==
    IF \A j \in 0..3 : IsDigit(At(s, i + j))
    THEN <<4, 1000 * DigitVal(s[i]) + 100 * DigitVal(s[i + 1])
              + 10 * DigitVal(s[i + 2]) + DigitVal(s[i + 3])>>
    ELSE <<0, 0>>

\* The match of the format's regular expression against s from position i:
\* <<fields>> when tokens k.. match and the whole of s is consumed, <<>> otherwise.
RECURSIVE MatchFrom(_, _, _, _, _)
MatchFrom(s, i, fmt, k, acc) ==
    IF k > Len(fmt) THEN (IF i = Len(s) + 1 THEN <<acc>> ELSE <<>>)
    ELSE LET tok == fmt[k] IN
         IF tok = "%B" THEN
            LET m == MonthAt(s, i) IN
            IF m = 0 THEN <<>>
            ELSE MatchFrom(s, i + Len(MonthNames[m]), fmt, k + 1, [acc EXCEPT !.month = m])
         ELSE IF tok = "%d" THEN
            LET d == DayAt(s, i) IN
            IF d[1] = 0 THEN <<>>
            ELSE MatchFrom(s, i + d[1], fmt, k + 1, [acc EXCEPT !.day = d[2]])
         ELSE IF tok = "%m" THEN
            LET m == MonthNumAt(s, i) IN
            IF m[1] = 0 THEN <<>>
            ELSE MatchFrom(s, i + m[1], fmt, k + 1, [acc EXCEPT !.month = m[2]])
         ELSE IF tok = "%Y" THEN
            LET y == YearAt(s, i) IN
            IF y[1] = 0 THEN <<>>
            ELSE MatchFrom(s, i + y[1], fmt, k + 1, [acc EXCEPT !.year = y[2]])
         ELSE IF tok = " " THEN
            LET n == SpacesAt(s, i) IN
            IF n = 0 THEN <<>> ELSE MatchFrom(s, i + n, fmt, k + 1, acc)
         ELSE IF i <= Len(s) /\ Lower(s[i]) = Lower(tok)
              THEN MatchFrom(s, i + 1, fmt, k + 1, acc)
              ELSE <<>>

\* The date the matched fields name must exist (year 1 or later, a day of
\* the month), otherwise ValueError
ExistingDate(m) ==
    IF m = <<>> THEN <<>>
    ELSE IF m[1].year >= 1 /\ m[1].day <= DaysInMonth(m[1].year, m[1].month)
         THEN m ELSE <<>>

\* datetime.strptime(s, fmt): <<datetime>>, or <<>> where it raises ValueError.
\* Fields the format does not give default to 1900-01-01.
strptime(s, fmt) ==
    ExistingDate(MatchFrom(s, 1, fmt, 1, [year |-> 1900, month |-> 1, day |-> 1]))

TwoDigits(n) == <<Digits[((n \div 10) % 10) + 1], Digits[(n % 10) + 1]>>
FourDigits(n) == TwoDigits(n \div 100) \o TwoDigits(n % 100)

\* datetime.strftime(fmt) for years of four digits
RECURSIVE strftime(_, _)
strftime(dt, fmt) ==
    IF fmt = <<>> THEN <<>>
    ELSE LET tok == Head(fmt)
             piece == IF tok = "%B" THEN MonthNames[dt.month]
                      ELSE IF tok = "%d" THEN TwoDigits(dt.day)
                      ELSE IF tok = "%m" THEN TwoDigits(dt.month)
                      ELSE IF tok = "%Y" THEN FourDigits(dt.year)
                      ELSE IF tok = "%y" THEN TwoDigits(dt.year % 100)
                      ELSE <<tok>>
         IN  piece \o strftime(dt, Tail(fmt))

(***************************************************************************)
(* parse_date                                                              *)
(***************************************************************************)
\* Lines 22-26: the first format, from the k-th on, that strptime accepts;
\* r is what strptime gave for the k-th
RECURSIVE TryFormats(_, _)
ReturnOrNext(r, s, k) == IF r # <<>> THEN r ELSE TryFormats(s, k + 1)

TryFormats(s, k) ==
    IF k > Len(date_formats) THEN <<>>
    ELSE ReturnOrNext(strptime(s, date_formats[k]), s, k)

\* End of the run of word characters that starts at position i
RECURSIVE WordEnd(_, _)
WordEnd(s, i) == IF i < Len(s) /\ IsWordChar(s[i + 1]) THEN WordEnd(s, i + 1) ELSE i

\* Line 29: r'(\w+)\s+(\d{1,2})(?:,?\s+(\d{4}))?' matches from position p:
\* a run of word characters, blanks, a digit
MatchesAt(s, p) ==
    /\ IsWordChar(s[p])
    /\ SpacesAt(s, WordEnd(s, p) + 1) >= 1
    /\ IsDigit(At(s, WordEnd(s, p) + SpacesAt(s, WordEnd(s, p) + 1) + 1))

\* (\d{1,2}) from position d: its last position
DayEnd(s, d) == IF IsDigit(At(s, d + 1)) THEN d + 1 ELSE d

\* (?:,?\s+(\d{4}))? after the day that ends at e: the year group, if it matches
YearGroupAt(s, c, n) ==
    IF n >= 1 /\ \A j \in 0..3 : IsDigit(At(s, c + n + j))
    THEN <<SubSeq(s, c + n, c + n + 3)>> ELSE <<>>

YearGroup(s, c) == YearGroupAt(s, c, SpacesAt(s, c))

\* The groups of the match whose word is s[p..q] and whose day starts at d
GroupsAt(s, p, q, d) ==
    [month |-> SubSeq(s, p, q),
     day   |-> SubSeq(s, d, DayEnd(s, d)),
     year  |-> YearGroup(s, IF At(s, DayEnd(s, d) + 1) = ","
                            THEN DayEnd(s, d) + 2 ELSE DayEnd(s, d) + 1)]

GroupsFrom(s, p, q) == GroupsAt(s, p, q, q + SpacesAt(s, q + 1) + 1)

\* Line 29: re.search: the leftmost match, as <<[month, day, year]>> (year is
\* <<>> when its group is absent), or <<>> when there is none
RegexSearch(s) ==
    IF \E p \in 1..Len(s) : MatchesAt(s, p)
    THEN <<GroupsFrom(s, CHOOSE p \in 1..Len(s) :
                            MatchesAt(s, p) /\ \A x \in 1..(p - 1) : ~MatchesAt(s, x),
                      WordEnd(s, CHOOSE p \in 1..Len(s) :
                            MatchesAt(s, p) /\ \A x \in 1..(p - 1) : ~MatchesAt(s, x)))>>
    ELSE <<>>

\* Line 32: the year assumed when the text carries none
default_year == <<"2", "0", "2", "4">>

\* Lines 30-36: the components found are parsed as month name, day and year
FromComponents(match) ==
    IF match = <<>> THEN <<>>
    ELSE strptime(match[1].month \o <<" ">> \o match[1].day \o <<" ">>
                    \o (IF match[1].year # <<>> THEN match[1].year[1] ELSE default_year),
                  fallback_format)

\* Lines 28-39: r is what the fixed formats gave
ReturnOrFallback(r, s) == IF r # <<>> THEN r ELSE FromComponents(RegexSearch(s))

\* parse_date(date_string): <<datetime>> or <<>> (None, with an error logged)
parse_date(s) == ReturnOrFallback(TryFormats(s, 1), s)

(***************************************************************************)
(* process_csv_file                                                        *)
(***************************************************************************)
TimePeriod == <<"T", "i", "m", "e", " ", "P", "e", "r", "i", "o", "d">>
PeakContacts == <<"P", "e", "a", "k", " ", "C", "o", "n", "t", "a", "c", "t", "s">>
ExperiencePortal ==
    <<"E", "x", "p", "e", "r", "i", "e", "n", "c", "e", " ", "P", "o", "r", "t", "a", "l">>

\* Log records, by level and message
LogRecord(level, msg) == [level |-> level, msg |-> msg]
UnableToParse == LogRecord("ERROR", "Unable to parse date")
ProcessedFileData == LogRecord("INFO", "Processed file data")
MissingData == LogRecord("WARNING", "Missing data in file")
ErrorProcessing == LogRecord("ERROR", "Error processing file")

\* Python truth of an optional string: neither None nor ''
Truthy(opt) == opt # <<>> /\ opt[1] # <<>>

\* Line 63: position of the next row r from i on with `r and r[0]`
\* (Len(rs) + 1 when the reader is exhausted first)
RECURSIVE NextNonEmpty(_, _)
NextNonEmpty(rs, i) ==
    IF i > Len(rs) THEN i
    ELSE IF rs[i] # <<>> /\ rs[i][1] # <<>> THEN i
    ELSE NextNonEmpty(rs, i + 1)

\* Lines 49-51 mutated: the date starts as a fixed label instead of None
InitialScanStateFixedDate ==
    [peak_contacts |-> <<>>, portal |-> <<>>,
     date |-> << <<"T", "o", "d", "a", "y">> >>, log |-> <<>>]

\* Lines 49-51: peak_contacts = portal = date = None (and what the scan has logged)
InitialScanState == [peak_contacts |-> <<>>, portal |-> <<>>, date |-> <<>>, log |-> <<>>]

\* Lines 57-58: the date is kept when parse_date returned one; otherwise
\* parse_date has logged its failure (line 38)
KeepParsed(st, parsed) ==
    IF parsed # <<>>
    THEN [st EXCEPT !.date = <<strftime(parsed[1], label_format)>>]
    ELSE [st EXCEPT !.log = Append(@, UnableToParse)]

\* Lines 55-58: a 'Time Period' row
TimePeriodRow(st, cell) == KeepParsed(st, parse_date(cell))

\* Line 63 mutated: the forward scan exhausts the reader
ResumeAtEnd(rs, j) == Len(rs) + 1

\* Lines 52 and 63: the row the loop takes next when the forward scan has
\* stopped at row j: the generator expression and the loop share the reader
ResumeAt(rs, j) == j + 1

\* Lines 52-63: the loop over the reader, from row i on; the forward scan of
\* line 63 consumes rows of the same reader.
RECURSIVE ScanRows(_, _, _)
ScanRows(rs, i, st) ==
    IF i > Len(rs) THEN st
    ELSE LET row == rs[i] IN
         IF Len(row) > 1 THEN
            IF row[1] = TimePeriod THEN
                ScanRows(rs, i + 1, TimePeriodRow(st, row[2]))
            ELSE IF StartsWith(row[1], PeakContacts) THEN
                ScanRows(rs, i + 1, [st EXCEPT !.peak_contacts = <<row[2]>>])
            ELSE IF row[1] = ExperiencePortal THEN
                LET j == NextNonEmpty(rs, i + 1) IN
                ScanRows(rs, ResumeAt(rs, j),
                         [st EXCEPT !.portal = IF j <= Len(rs) THEN <<rs[j][1]>> ELSE <<>>])
            ELSE ScanRows(rs, i + 1, st)
         ELSE ScanRows(rs, i + 1, st)

\* Line 64: `if portal and peak_contacts and date`
Complete(st) == Truthy(st.portal) /\ Truthy(st.peak_contacts) /\ Truthy(st.date)

\* Lines 69-70 mutated: no handler, the exception leaves process_csv_file
HandlerAbsent(lg) == [result |-> <<>>, log |-> lg, raised |-> TRUE]

\* Lines 69-71: the handler logs the exception and None is returned
Handler(lg) == [result |-> <<>>, log |-> Append(lg, ErrorProcessing), raised |-> FALSE]

\* Lines 64-68: the record, or None with a warning
Outcome(st) ==
    IF Complete(st)
    THEN [result |-> <<st.date[1], st.portal[1], st.peak_contacts[1]>>,
          log |-> Append(st.log, ProcessedFileData), raised |-> FALSE]
    ELSE [result |-> <<>>,
          log |-> Append(st.log, MissingData), raised |-> FALSE]

\* process_csv_file(filepath) on a file that open() or read() rejects
\* (readable = FALSE) or whose reader yields the rows rs:
\* the returned value (<<>> is None), the records logged, and whether an
\* exception leaves the function.
process_csv_file(readable, rs) ==
    IF ~readable THEN Handler(<<>>)
    ELSE Outcome(ScanRows(rs, 1, InitialScanState))

(***************************************************************************)
(* Values of the variables a specification does not use                    *)
(***************************************************************************)
NoTriple == [year |-> 0, month |-> 0, day |-> 0, fmt |-> 0]

DateUnused == triple = NoTriple /\ date_string = <<>> /\ parsed_date = <<>> /\ date = <<>>
ScanUnused == rows = <<>> /\ result = <<>>
IndexUnused == report_files = <<>> /\ index_html = <<>>
MainUnused ==
    /\ directory = <<>> /\ csv_files = <<>> /\ cursor = 0
    /\ data_by_date = <<>> /\ latest_date = <<>>
    /\ output_dir = <<>> /\ written = {} /\ runs = 0

(***************************************************************************)
(* SpecDate: parse_date and the label of line 58 on bounded inputs         *)
(***************************************************************************)
Years == {1900, 2000} \cup (2023..MaxYear)

\* The formats in which the test texts are written: month-name day, year;
\* month-name day; MM/DD/YYYY; YYYY/MM/DD; DD-MM-YYYY; YYYY-MM-DD
WrittenFormats ==
    << <<"%B", " ", "%d", ",", " ", "%Y">>,
       <<"%B", " ", "%d">>,
       <<"%m", "/", "%d", "/", "%Y">>,
       <<"%Y", "/", "%m", "/", "%d">>,
       <<"%d", "-", "%m", "-", "%Y">>,
       <<"%Y", "-", "%m", "-", "%d">> >>

Triples == {t \in [year : Years, month : 1..12, day : 1..31, fmt : 1..Len(WrittenFormats)] :
                t.day <= DaysInMonth(t.year, t.month)}

\* Texts that are not produced by one of the six formats
FreeTexts ==
    { <<"J", "u", "n", "e", " ", "5", " ", "2", "0", "2", "3">>,
      <<"j", "u", "l", "y", " ", " ", "5">>,
      <<"J", "u", "l", "y", " ", "2", "0", "2", "4">>,
      <<"2", "0", " ", "J", "u", "l", "y", " ", "2", "0", "2", "4">>,
      <<"S", "e", "p", "t", " ", "5", " ", "2", "0", "2", "4">>,
      <<"0", "0", "0", "0", "-", "0", "1", "-", "0", "1">>,
      <<"n", "o", "t", " ", "a", " ", "d", "a", "t", "e">>,
      <<>> }

InitDate ==
    /\ pc = "date_start"
    /\ \/ /\ triple \in Triples
          /\ date_string = strftime(triple, WrittenFormats[triple.fmt])
       \/ /\ triple = NoTriple
          /\ date_string \in FreeTexts
    /\ parsed_date = <<>> /\ date = <<>>
    /\ log = <<>> /\ raised = FALSE
    /\ ScanUnused /\ IndexUnused /\ MainUnused

\* Line 56: parsed_date = parse_date(row[1])
ParseDate ==
    /\ pc = "date_start"
    /\ parsed_date' = parse_date(date_string)
    /\ log' = IF parsed_date' = <<>> THEN Append(log, UnableToParse) ELSE log
    /\ pc' = "date_parsed"
    /\ UNCHANGED <<triple, date_string, date, rows, result, raised, report_files,
                   index_html, directory, csv_files, cursor, data_by_date,
                   latest_date, output_dir, written, runs>>

\* Lines 57-58: date = parsed_date.strftime("%B-%y")
FormatLabel ==
    /\ pc = "date_parsed"
    /\ parsed_date # <<>>
    /\ date' = <<strftime(parsed_date[1], label_format)>>
    /\ pc' = "date_done"
    /\ UNCHANGED <<triple, date_string, parsed_date, rows, result, log, raised,
                   report_files, index_html, directory, csv_files, cursor,
                   data_by_date, latest_date, output_dir, written, runs>>

NextDate == ParseDate \/ FormatLabel

SpecDate == InitDate /\ [][NextDate]_vars

(***************************************************************************)
(* SpecScan: process_csv_file on bounded row sequences                     *)
(***************************************************************************)
PeakContactsRows == PeakContacts \o <<" ", "(", "r", "o", "w", "s", ")">>
PortalA == <<"P", "o", "r", "t", "a", "l", "A">>
PortalB == <<"P", "o", "r", "t", "a", "l", "B">>

\* The rows a file is made of
RowAlphabet ==
    { <<TimePeriod, <<"0", "7", "/", "2", "0", "/", "2", "0", "2", "4">> >>,
      <<TimePeriod, <<"n", "o", "t", " ", "a", " ", "d", "a", "t", "e">> >>,
      <<PeakContactsRows, <<"4", "2">> >>,
      <<ExperiencePortal, <<>> >>,
      <<ExperiencePortal>>,
      <<>>,
      <<PortalA>> }

RowSeqs == UNION {[1..n -> RowAlphabet] : n \in 0..MaxRows}

InitScan ==
    /\ pc = "scan_start"
    /\ rows \in RowSeqs
    /\ result = <<>>
    /\ log = <<>> /\ raised = FALSE
    /\ DateUnused /\ IndexUnused /\ MainUnused

\* The outcome r of the call is received
Returned(r) ==
    /\ result' = r.result
    /\ log' = log \o r.log
    /\ raised' = r.raised

\* A call of process_csv_file on a readable file with these rows
ProcessCsvFile ==
    /\ pc = "scan_start"
    /\ Returned(process_csv_file(TRUE, rows))
    /\ pc' = "scanned"
    /\ UNCHANGED <<triple, date_string, parsed_date, date, rows, report_files,
                   index_html, directory, csv_files, cursor, data_by_date,
                   latest_date, output_dir, written, runs>>

NextScan == ProcessCsvFile

SpecScan == InitScan /\ [][NextScan]_vars

(***************************************************************************)
(* generate_html_report, generate_index_html, generate_css                 *)
(***************************************************************************)
\* A generated file is kept by what its text carries: its title, the <td>
\* pairs of its table in order, and its links in order.
index_name == <<"i", "n", "d", "e", "x", ".", "h", "t", "m", "l">>
output_name == <<"o", "u", "t", "p", "u", "t", ".", "h", "t", "m", "l">>
styles_name == <<"s", "t", "y", "l", "e", "s", ".", "c", "s", "s">>
ViewAllReports ==
    <<"V", "i", "e", "w", " ", "A", "l", "l", " ", "R", "e", "p", "o", "r", "t", "s">>

Link(href, text) == [href |-> href, text |-> text]

\* generate_html_report(date, data, is_output)
generate_html_report(d, data, is_output) ==
    [kind  |-> "html",
     title |-> IF is_output
               THEN [text |-> "Latest Experience Portal Data", date |-> <<>>]
               ELSE [text |-> "Experience Portal Data - ", date |-> d],
     rows  |-> data,
     links |-> <<Link(index_name, ViewAllReports)>>]

\* Python's < on the (date, filename) items of the mapping
ItemLess(a, b) == StrLess(a[1], b[1]) \/ (a[1] = b[1] /\ StrLess(a[2], b[2]))

\* The sequence without its element at position i
Without(seq, i) == SubSeq(seq, 1, i - 1) \o SubSeq(seq, i + 1, Len(seq))

\* Line 121 mutated: sorted(items) without reverse=True
RECURSIVE sorted_ascending(_)
sorted_ascending(items) ==
    IF items = <<>> THEN <<>>
    ELSE LET i == CHOOSE i \in 1..Len(items) :
                    \A j \in 1..Len(items) : j = i \/ ItemLess(items[i], items[j])
         IN  <<items[i]>> \o sorted_ascending(Without(items, i))

\* Line 121: sorted(items, reverse=True) of items with distinct keys
RECURSIVE sorted_reverse(_)
sorted_reverse(items) ==
    IF items = <<>> THEN <<>>
    ELSE LET i == CHOOSE i \in 1..Len(items) :
                    \A j \in 1..Len(items) : j = i \/ ItemLess(items[j], items[i])
         IN  <<items[i]>> \o sorted_reverse(Without(items, i))

\* generate_index_html(data_by_date): the mapping is the sequence of its
\* (date, filename) items in insertion order
generate_index_html(items) ==
    LET ordered == sorted_reverse(items) IN
    [kind  |-> "html",
     title |-> [text |-> "Experience Portal Data Index", date |-> <<>>],
     rows  |-> <<>>,
     links |-> [i \in 1..Len(ordered) |-> Link(ordered[i][2], ordered[i][1])]]

\* generate_css(): a fixed text
generate_css ==
    [kind |-> "css", title |-> [text |-> "", date |-> <<>>], rows |-> <<>>, links |-> <<>>]

\* Line 204: f'report_{date.replace(" ", "_")}.html'
report_filename(d) ==
    <<"r", "e", "p", "o", "r", "t", "_">> \o Replace(d, " ", "_")
        \o <<".", "h", "t", "m", "l">>

(***************************************************************************)
(* SpecIndex: generate_index_html on bounded mappings                      *)
(***************************************************************************)
PeriodLabels ==
    {strftime([year |-> y, month |-> m, day |-> 1], label_format) :
        y \in {2023, 2024}, m \in {6, 7, 8}}

Mappings ==
    {items \in UNION {[1..n -> {<<l, report_filename(l)>> : l \in PeriodLabels}] :
                        n \in 0..MaxPeriods} :
        \A i, j \in 1..Len(items) : i # j => items[i][1] # items[j][1]}

InitIndex ==
    /\ pc = "index_start"
    /\ report_files \in Mappings
    /\ index_html = <<>>
    /\ log = <<>> /\ raised = FALSE
    /\ DateUnused /\ ScanUnused
    /\ directory = <<>> /\ csv_files = <<>> /\ cursor = 0
    /\ data_by_date = <<>> /\ latest_date = <<>>
    /\ output_dir = <<>> /\ written = {} /\ runs = 0

\* Line 211: index_html = generate_index_html(report_files)
GenerateIndex ==
    /\ pc = "index_start"
    /\ index_html' = generate_index_html(report_files).links
    /\ pc' = "index_done"
    /\ UNCHANGED <<triple, date_string, parsed_date, date, rows, result, log, raised,
                   report_files, directory, csv_files, cursor, data_by_date,
                   latest_date, output_dir, written, runs>>

NextIndex == GenerateIndex

SpecIndex == InitIndex /\ [][NextIndex]_vars

(***************************************************************************)
(* Spec: runs of main over a working directory that changes between runs   *)
(***************************************************************************)
\* Line 48: csv.reader over lines without quote characters: a line is split
\* at every comma, and an empty line gives an empty row.
RECURSIVE SplitLine(_, _, _)
SplitLine(line, i, cell) ==
    IF i > Len(line) THEN <<cell>>
    ELSE IF line[i] = "," THEN <<cell>> \o SplitLine(line, i + 1, <<>>)
    ELSE SplitLine(line, i + 1, Append(cell, line[i]))

csv_reader(lines) ==
    [i \in 1..Len(lines) |-> IF lines[i] = <<>> THEN <<>> ELSE SplitLine(lines[i], 1, <<>>)]

Comma == <<",">>
CsvSuffix == <<".", "c", "s", "v">>
TxtSuffix == <<".", "t", "x", "t">>

\* The files a directory is made of: suffix of the name, whether open() and
\* read() succeed, and the lines of the text.
Files ==
    [ july20 |->
        [suffix |-> CsvSuffix, readable |-> TRUE,
         lines |-> << TimePeriod \o Comma \o <<"J", "u", "l", "y", " ", "2", "0", ",", " ", "2", "0", "2", "4">>,
                      PeakContactsRows \o Comma \o <<"4", "2">>,
                      ExperiencePortal \o Comma,
                      <<>>,
                      PortalA >>],
      july4 |->
        [suffix |-> CsvSuffix, readable |-> TRUE,
         lines |-> << TimePeriod \o Comma \o <<"J", "u", "l", "y", " ", "4">>,
                      PeakContactsRows \o Comma \o <<"7">>,
                      ExperiencePortal \o Comma,
                      PortalB >>],
      slashes |->
        [suffix |-> CsvSuffix, readable |-> TRUE,
         lines |-> << PeakContactsRows \o Comma \o <<"9", "9">>,
                      ExperiencePortal \o Comma,
                      PortalA,
                      TimePeriod \o Comma \o <<"0", "7", "/", "2", "0", "/", "2", "0", "2", "4">> >>],
      nodate |->
        [suffix |-> CsvSuffix, readable |-> TRUE,
         lines |-> << TimePeriod \o Comma \o <<"n", "o", "t", " ", "a", " ", "d", "a", "t", "e">>,
                      PeakContactsRows \o Comma \o <<"4", "2">>,
                      ExperiencePortal \o Comma,
                      PortalA >>],
      locked |->
        [suffix |-> CsvSuffix, readable |-> FALSE, lines |-> <<>>],
      notes |->
        [suffix |-> TxtSuffix, readable |-> TRUE,
         lines |-> << TimePeriod \o Comma \o <<"0", "7", "/", "2", "0", "/", "2", "0", "2", "4">>,
                      PeakContactsRows \o Comma \o <<"4", "2">>,
                      ExperiencePortal \o Comma,
                      PortalA >>] ]

\* A directory lists up to MaxFiles files; the i-th is named f<i><suffix>
FileName(dir, i) == <<"f", Digits[i + 1]>> \o Files[dir[i]].suffix
FileNamed(dir, name) == dir[CHOOSE i \in 1..Len(dir) : FileName(dir, i) = name]

\* process_csv_file reads nothing but its file: its outcome on each file of Files
Processed ==
    [f \in DOMAIN Files |-> process_csv_file(Files[f].readable, csv_reader(Files[f].lines))]

\* Log records of main
FoundCsvFiles == LogRecord("INFO", "Found CSV files")
ProcessedFile == LogRecord("INFO", "Processed file")
FailedToProcess == LogRecord("WARNING", "Failed to process file")
NoDataExtracted == LogRecord("ERROR", "No data was extracted from CSV files")
GeneratedReport == LogRecord("INFO", "Generated report file")
GeneratingIndex == LogRecord("INFO", "Generating index.html")
GeneratedIndex == LogRecord("INFO", "Generated index.html")
GeneratedOutput == LogRecord("INFO", "Generated output.html with latest data")
GeneratedStyles == LogRecord("INFO", "Generated styles.css")

\* open(path, 'w') and write: the file is created or replaced
WriteFile(dir, name, content) ==
    [n \in DOMAIN dir \cup {name} |-> IF n = name THEN content ELSE dir[n]]

\* Line 191 mutated: the entry is put in front of the list
AppendToDateInFront(dict, d, entry) ==
    IF \E i \in 1..Len(dict) : dict[i].date = d
    THEN [i \in 1..Len(dict) |->
            IF dict[i].date = d THEN [dict[i] EXCEPT !.data = <<entry>> \o @] ELSE dict[i]]
    ELSE Append(dict, [date |-> d, data |-> <<entry>>])

\* Line 191: data_by_date[date].append(...) on a defaultdict(list), kept as
\* the sequence of its (date, list) items in insertion order
AppendToDate(dict, d, entry) ==
    IF \E i \in 1..Len(dict) : dict[i].date = d
    THEN [i \in 1..Len(dict) |->
            IF dict[i].date = d THEN [dict[i] EXCEPT !.data = Append(@, entry)] ELSE dict[i]]
    ELSE Append(dict, [date |-> d, data |-> <<entry>>])

\* data_by_date[date]
Lookup(dict, d) == dict[CHOOSE i \in 1..Len(dict) : dict[i].date = d].data

\* Line 192 mutated: the comparison is reversed
IsLaterReversed(latest, d) == latest = <<>> \/ StrLess(d, latest[1])

\* Line 192: latest_date is None or date > latest_date
IsLater(latest, d) == latest = <<>> \/ StrLess(latest[1], d)

Init ==
    /\ pc = "idle"
    /\ directory = <<>>
    /\ csv_files = <<>> /\ cursor = 0
    /\ data_by_date = <<>> /\ latest_date = <<>>
    /\ report_files = <<>>
    /\ output_dir = <<>> /\ written = {} /\ runs = 0
    /\ log = <<>> /\ raised = FALSE
    /\ index_html = <<>>
    /\ DateUnused /\ ScanUnused

\* Lines 176-184: the output directory is made if absent, the state of the
\* run is fresh, the names ending in .csv are listed
StartRun ==
    /\ pc \in {"idle", "done"}
    /\ runs < MaxRuns
    /\ runs' = runs + 1
    /\ data_by_date' = <<>>
    /\ latest_date' = <<>>
    /\ report_files' = <<>>
    /\ csv_files' = LET names == [i \in 1..Len(directory) |-> FileName(directory, i)]
                    IN  SelectSeq(names, LAMBDA n : EndsWith(n, CsvSuffix))
    /\ cursor' = 0
    /\ written' = {}
    /\ log' = <<FoundCsvFiles>>
    /\ pc' = "scan"
    /\ UNCHANGED <<triple, date_string, parsed_date, date, rows, result, raised,
                   index_html, directory, output_dir>>

\* Lines 189-196: what the loop does with the outcome r of process_csv_file
HandleResult(r) ==
    IF r.raised
    THEN /\ raised' = TRUE
         /\ pc' = "aborted"
         /\ log' = log \o r.log
         /\ UNCHANGED <<data_by_date, latest_date, cursor>>
    ELSE /\ cursor' = cursor + 1
         /\ UNCHANGED <<raised, pc>>
         /\ IF r.result # <<>>
            THEN /\ data_by_date' = AppendToDate(data_by_date, r.result[1],
                                                 <<r.result[2], r.result[3]>>)
                 /\ latest_date' = IF IsLater(latest_date, r.result[1])
                                   THEN <<r.result[1]>> ELSE latest_date
                 /\ log' = (log \o r.log) \o <<ProcessedFile>>
            ELSE /\ log' = (log \o r.log) \o <<FailedToProcess>>
                 /\ UNCHANGED <<data_by_date, latest_date>>

\* Lines 186-196: one iteration of the loop over csv_files
ProcessFile ==
    /\ pc = "scan"
    /\ cursor < Len(csv_files)
    /\ HandleResult(Processed[FileNamed(directory, csv_files[cursor + 1])])
    /\ UNCHANGED <<triple, date_string, parsed_date, date, rows, result, report_files,
                   index_html, directory, csv_files, output_dir, written, runs>>

\* Lines 198-199 mutated: without data the run ends at once
NoDataEndingRun ==
    /\ pc = "scan"
    /\ cursor = Len(csv_files)
    /\ data_by_date = <<>>
    /\ log' = Append(log, NoDataExtracted)
    /\ pc' = "done"
    /\ UNCHANGED <<triple, date_string, parsed_date, date, rows, result, raised,
                   report_files, index_html, directory, csv_files, cursor,
                   data_by_date, latest_date, output_dir, written, runs>>

\* Lines 198-199: the loop is over and nothing was extracted; an error is
\* logged and the reports, the index and the alias are skipped
NoData ==
    /\ pc = "scan"
    /\ cursor = Len(csv_files)
    /\ data_by_date = <<>>
    /\ log' = Append(log, NoDataExtracted)
    /\ pc' = "css"
    /\ UNCHANGED <<triple, date_string, parsed_date, date, rows, result, raised,
                   report_files, index_html, directory, csv_files, cursor,
                   data_by_date, latest_date, output_dir, written, runs>>

\* Lines 202-208: the loop over data_by_date.items(), from item k on: the
\* files written and the report_files built
RECURSIVE WriteReportsFrom(_, _, _)
WriteReportsFrom(dict, k, st) ==
    IF k > Len(dict) THEN st
    ELSE LET report_html == generate_html_report(dict[k].date, dict[k].data, FALSE)
             name == report_filename(dict[k].date)
         IN  WriteReportsFrom(dict, k + 1,
                 [dir          |-> WriteFile(st.dir, name, report_html),
                  written      |-> st.written \cup {name},
                  report_files |-> Append(st.report_files, <<dict[k].date, name>>),
                  log          |-> Append(st.log, GeneratedReport)])

\* Lines 200-220: one report per period, the index, and the alias of the
\* latest period
GenerateReports ==
    /\ pc = "scan"
    /\ cursor = Len(csv_files)
    /\ data_by_date # <<>>
    /\ LET reports == WriteReportsFrom(data_by_date, 1,
                          [dir |-> output_dir, written |-> written,
                           report_files |-> <<>>, log |-> log])
           with_index == WriteFile(reports.dir, index_name,
                                   generate_index_html(reports.report_files))
       IN  /\ report_files' = reports.report_files
           /\ IF Truthy(latest_date)
              THEN /\ output_dir' = WriteFile(with_index, output_name,
                                        generate_html_report(latest_date[1],
                                            Lookup(data_by_date, latest_date[1]), TRUE))
                   /\ written' = reports.written \cup {index_name, output_name}
                   /\ log' = reports.log \o <<GeneratingIndex, GeneratedIndex, GeneratedOutput>>
              ELSE /\ output_dir' = with_index
                   /\ written' = reports.written \cup {index_name}
                   /\ log' = reports.log \o <<GeneratingIndex, GeneratedIndex>>
    /\ pc' = "css"
    /\ UNCHANGED <<triple, date_string, parsed_date, date, rows, result, raised,
                   index_html, directory, csv_files, cursor, data_by_date,
                   latest_date, runs>>

\* Lines 222-225: the stylesheet is written, and main returns
WriteCss ==
    /\ pc = "css"
    /\ output_dir' = WriteFile(output_dir, styles_name, generate_css)
    /\ written' = written \cup {styles_name}
    /\ log' = Append(log, GeneratedStyles)
    /\ pc' = "done"
    /\ UNCHANGED <<triple, date_string, parsed_date, date, rows, result, raised,
                   report_files, index_html, directory, csv_files, cursor,
                   data_by_date, latest_date, runs>>

\* What is left when no run is in progress: output/ and the working directory
NoRunState ==
    /\ csv_files' = <<>> /\ cursor' = 0
    /\ data_by_date' = <<>> /\ latest_date' = <<>>
    /\ report_files' = <<>>
    /\ written' = {} /\ log' = <<>>
    /\ pc' = "idle"
    /\ UNCHANGED <<triple, date_string, parsed_date, date, rows, result, raised,
                   index_html, output_dir, runs>>

\* Before a run, a file is added to the working directory
AddFile ==
    /\ pc \in {"idle", "done"}
    /\ runs < MaxRuns
    /\ Len(directory) < MaxFiles
    /\ \E f \in DOMAIN Files : directory' = Append(directory, f)
    /\ NoRunState

\* Before a run, a file is removed from the working directory
RemoveFile ==
    /\ pc \in {"idle", "done"}
    /\ runs < MaxRuns
    /\ \E i \in 1..Len(directory) : directory' = Without(directory, i)
    /\ NoRunState

Next ==
    \/ StartRun
    \/ ProcessFile
    \/ NoData
    \/ GenerateReports
    \/ WriteCss
    \/ AddFile
    \/ RemoveFile

Spec == Init /\ [][Next]_vars

(***************************************************************************)
(* Claims about parse_date and the label (SpecDate)                        *)
(***************************************************************************)
LabelOf(t) == strftime(t, label_format)

\* C3 as stated: for every valid triple and each of the six formats, the text
\* built from the triple in that format is parsed and normalized to the label
\* "<FullMonthName>-<two digits of the year>" of that same triple.
C3_RoundTripSixFormats ==
    (triple.fmt # 0 /\ pc # "date_start") =>
        /\ parsed_date # <<>>
        /\ pc = "date_done" => date = <<LabelOf(triple)>>

\* C3 amended: the five formats that carry the year give the label of the same
\* triple; the month-name day format (which carries no year) is parsed too and
\* gives a label with the full month name of the triple.
C3_RoundTripFormatsWithYear ==
    (triple.fmt # 0 /\ pc # "date_start") =>
        /\ parsed_date # <<>>
        /\ pc = "date_done" =>
              IF triple.fmt = 2
              THEN date # <<>> /\ StartsWith(date[1], MonthNames[triple.month] \o <<"-">>)
              ELSE date = <<LabelOf(triple)>>

C3_Witness ==
    /\ pc = "date_done" /\ triple.fmt = 4 /\ triple.year = 2023 /\ triple.month = 12
    /\ date = <<LabelOf(triple)>>

(***************************************************************************)
(* Claims about process_csv_file (SpecScan)                                *)
(***************************************************************************)
TimePeriodRows == {i \in 1..Len(rows) : rows[i] # <<>> /\ rows[i][1] = TimePeriod}
PeakContactsRowsAt ==
    {i \in 1..Len(rows) : rows[i] # <<>> /\ StartsWith(rows[i][1], PeakContacts)}
MarkerRows == {i \in 1..Len(rows) : rows[i] # <<>> /\ rows[i][1] = ExperiencePortal}
The(S) == CHOOSE x \in S : TRUE

\* Rows after row i whose first cell is not empty
NonEmptyAfter(i) == {j \in (i + 1)..Len(rows) : rows[j] # <<>> /\ rows[j][1] # <<>>}
PortalRowAfter(i) == CHOOSE j \in NonEmptyAfter(i) : \A k \in NonEmptyAfter(i) : j <= k

\* One Time Period row with a parseable date, one Peak Contacts row with a
\* non-empty count, one portal marker followed by a row with a non-empty first cell
ThreeMarkers ==
    /\ Cardinality(TimePeriodRows) = 1
    /\ Len(rows[The(TimePeriodRows)]) > 1
    /\ parse_date(rows[The(TimePeriodRows)][2]) # <<>>
    /\ Cardinality(PeakContactsRowsAt) = 1
    /\ Len(rows[The(PeakContactsRowsAt)]) > 1
    /\ rows[The(PeakContactsRowsAt)][2] # <<>>
    /\ Cardinality(MarkerRows) = 1
    /\ NonEmptyAfter(The(MarkerRows)) # {}

ExpectedRecord ==
    << LabelOf(parse_date(rows[The(TimePeriodRows)][2])[1]),
       rows[PortalRowAfter(The(MarkerRows))][1],
       rows[The(PeakContactsRowsAt)][2] >>

\* C4 as stated: whenever the three marker rows occur, in any relative order,
\* the record holds the count of the Peak Contacts row, the first cell of the
\* next row after the marker with a non-empty first cell, and the period label.
C4_AnyOrder == (pc = "scanned" /\ ThreeMarkers) => result = ExpectedRecord

\* C4 amended: the same, provided the marker row has at least two cells and the
\* row the forward scan takes as the portal is neither the Time Period row nor
\* the Peak Contacts row (each lies before the marker or after the portal row).
C4_ValidPositions ==
    ( /\ pc = "scanned" /\ ThreeMarkers
      /\ Len(rows[The(MarkerRows)]) > 1
      /\ PortalRowAfter(The(MarkerRows)) \notin TimePeriodRows \cup PeakContactsRowsAt )
    => result = ExpectedRecord

C4_Witness ==
    /\ pc = "scanned" /\ ThreeMarkers
    /\ Len(rows[The(MarkerRows)]) > 1
    /\ PortalRowAfter(The(MarkerRows)) > The(MarkerRows) + 1
    /\ The(TimePeriodRows) > PortalRowAfter(The(MarkerRows))
    /\ The(PeakContactsRowsAt) < The(MarkerRows)
    /\ result = ExpectedRecord

\* C5: when one of the three markers occurs as the first cell of no row,
\* process_csv_file returns None, raises nothing and logs the outcome as a warning.
C5_MissingMarker ==
    ( /\ pc = "scanned"
      /\ TimePeriodRows = {} \/ PeakContactsRowsAt = {} \/ MarkerRows = {} )
    => /\ result = <<>>
       /\ ~raised
       /\ log # <<>> /\ log[Len(log)] = MissingData

C5_Witness ==
    /\ pc = "scanned"
    /\ TimePeriodRows = {} /\ PeakContactsRowsAt # {} /\ MarkerRows # {}
    /\ \E i \in MarkerRows : Len(rows[i]) > 1 /\ NonEmptyAfter(i) # {}
    /\ result = <<>> /\ log = <<MissingData>>

\* C9: whenever parse_date fails on the second cell of a Time Period row of the
\* file, process_csv_file returns no record, whatever the other rows are.
C9_UnparseableDateSkipsFile ==
    (pc = "scanned" /\ \E i \in 1..Len(log) : log[i] = UnableToParse) => result = <<>>

(***************************************************************************)
(* Claims about generate_index_html (SpecIndex)                            *)
(***************************************************************************)
July24 == <<"J", "u", "l", "y", "-", "2", "4">>
June24 == <<"J", "u", "n", "e", "-", "2", "4">>
August24 == <<"A", "u", "g", "u", "s", "t", "-", "2", "4">>

IndexKeys == {report_files[i][1] : i \in 1..Len(report_files)}
IndexTexts == [i \in 1..Len(index_html) |-> index_html[i].text]

\* C2 as stated: for the labels July-24, June-24 and August-24 the links of
\* the index are in the order August-24, July-24, June-24.
C2_IndexOrderAsStated ==
    (pc = "index_done" /\ IndexKeys = {July24, June24, August24})
    => IndexTexts = <<August24, July24, June24>>

\* C2 amended: for the labels July-24, June-24 and August-24 the links of the
\* index are in the order June-24, July-24, August-24, which is the
\* descending string order of the labels.
C2_IndexOrderDescending ==
    (pc = "index_done" /\ IndexKeys = {July24, June24, August24})
    => /\ IndexTexts = <<June24, July24, August24>>
       /\ \A i, j \in 1..Len(index_html) :
             i < j => StrLess(index_html[j].text, index_html[i].text)
       /\ \A i \in 1..Len(index_html) :
             index_html[i].href = report_filename(index_html[i].text)

C2_Witness ==
    /\ pc = "index_done"
    /\ Len(report_files) = 3
    /\ report_files[1][1] = July24 /\ report_files[2][1] = June24
    /\ report_files[3][1] = August24
    /\ IndexTexts = <<June24, July24, August24>>

(***************************************************************************)
(* Claims about main (Spec)                                                *)
(***************************************************************************)
\* The CSV files of the directory in scan order, and the records they yield
CsvFilesOf(dir) == SelectSeq(dir, LAMBDA f : Files[f].suffix = CsvSuffix)
Yielding(fs) == SelectSeq(fs, LAMBDA f : Processed[f].result # <<>>)
RecordsOf(fs) == [i \in 1..Len(Yielding(fs)) |-> Processed[Yielding(fs)[i]].result]

\* The (portal, count) entries of the records with label l, in order
EntriesFor(l, recs) ==
    LET mine == SelectSeq(recs, LAMBDA r : r[1] = l)
    IN  [i \in 1..Len(mine) |-> <<mine[i][2], mine[i][3]>>]

LabelsOf(recs) == {recs[i][1] : i \in 1..Len(recs)}
MaxLabel(recs) == CHOOSE l \in LabelsOf(recs) : \A m \in LabelsOf(recs) : ~StrLess(l, m)

LogHas(rec) == \E i \in 1..Len(log) : log[i] = rec

\* C1: a run over a directory with the one CSV file of the example writes
\* report_July-24.html with the table row (PortalA, 42), an index.html that
\* links to it, and an output.html with the same table rows.
C1_EndToEnd ==
    (pc = "done" /\ directory = <<"july20">>)
    => LET name == report_filename(July24) IN
       /\ name \in written
       /\ output_dir[name].rows = << <<PortalA, <<"4", "2">> >> >>
       /\ index_name \in written
       /\ \E i \in 1..Len(output_dir[index_name].links) :
             output_dir[index_name].links[i].href = name
       /\ output_name \in written
       /\ output_dir[output_name].rows = output_dir[name].rows

\* C6: a run that finds no CSV file, or whose CSV files yield no record,
\* writes styles.css and nothing else during the run, and logs an error.
C6_ZeroSuccess ==
    (pc = "done" /\ RecordsOf(CsvFilesOf(directory)) = <<>>)
    => /\ written = {styles_name}
       /\ styles_name \in DOMAIN output_dir
       /\ LogHas(NoDataExtracted)

C6_Witness ==
    /\ pc = "done" /\ runs = 2
    /\ directory = <<"nodate">>
    /\ index_name \in DOMAIN output_dir
    /\ written = {styles_name}
    /\ LogHas(NoDataExtracted)

\* The dictionary main builds from the records recs, from the k-th on
RECURSIVE GroupFrom(_, _, _)
GroupFrom(recs, k, dict) ==
    IF k > Len(recs) THEN dict
    ELSE GroupFrom(recs, k + 1, AppendToDate(dict, recs[k][1], <<recs[k][2], recs[k][3]>>))

\* C7: no exception leaves a run; a finished run has written styles.css, and
\* its records are those of the directory without the files that failed.
C7_NothingFatal ==
    /\ ~raised
    /\ pc # "aborted"
    /\ pc = "done" =>
          /\ styles_name \in written
          /\ output_dir[styles_name] = generate_css
          /\ data_by_date = GroupFrom(RecordsOf(CsvFilesOf(directory)), 1, <<>>)
          /\ cursor = Len(CsvFilesOf(directory))

C7_Witness ==
    /\ pc = "done"
    /\ directory = <<"locked", "july4">>
    /\ LogHas(ErrorProcessing)
    /\ data_by_date = <<[date |-> <<"J", "u", "l", "y", "-", "0", "0">>,
                         data |-> << <<PortalB, <<"7">> >> >>]>>
    /\ styles_name \in written

\* C8: the list under each period label holds one entry per CSV file that
\* yielded that label, in scan order (equal entries included), and the report
\* page of the period lists its rows in that order.
C8_Grouping ==
    (pc \in {"scan", "css", "done"}) =>
        LET recs == RecordsOf(SubSeq(CsvFilesOf(directory), 1, cursor)) IN
        /\ {data_by_date[i].date : i \in 1..Len(data_by_date)} = LabelsOf(recs)
        /\ \A i \in 1..Len(data_by_date) :
              /\ data_by_date[i].data = EntriesFor(data_by_date[i].date, recs)
              /\ pc = "done" =>
                    /\ report_filename(data_by_date[i].date) \in written
                    /\ output_dir[report_filename(data_by_date[i].date)].rows
                          = EntriesFor(data_by_date[i].date, recs)

C8_Witness ==
    /\ pc = "done"
    /\ directory = <<"july4", "july20">>
    /\ Len(data_by_date) = 1
    /\ output_dir[report_filename(data_by_date[1].date)].rows
          = << <<PortalB, <<"7">> >>, <<PortalA, <<"4", "2">> >> >>

\* C10 as stated: after any sequence of runs, whenever output/output.html
\* exists, its rows are the entries of the string-maximum label among the
\* records of the most recent run, the period of the first link of index.html.
C10_LatestAliasWheneverExists ==
    (pc = "done" /\ output_name \in DOMAIN output_dir)
    => LET recs == RecordsOf(CsvFilesOf(directory)) IN
       /\ recs # <<>>
       /\ output_dir[output_name].rows = EntriesFor(MaxLabel(recs), recs)
       /\ output_dir[index_name].links[1].text = MaxLabel(recs)

\* C10 amended: after any sequence of runs, whenever the most recent run
\* extracted at least one record, output/output.html exists and its rows are
\* the entries of the string-maximum label among the records of that run,
\* which is also the period of the first link of index.html.
C10_LatestAliasAfterSuccess ==
    LET recs == RecordsOf(CsvFilesOf(directory)) IN
    (pc = "done" /\ recs # <<>>)
    => /\ output_name \in written
       /\ output_dir[output_name].rows = EntriesFor(MaxLabel(recs), recs)
       /\ index_name \in written
       /\ output_dir[index_name].links[1].text = MaxLabel(recs)

C10_Witness ==
    /\ pc = "done" /\ runs = 2
    /\ directory = <<"slashes", "july4">>
    /\ output_dir[output_name].rows = << <<PortalA, <<"9", "9">> >> >>
    /\ output_dir[index_name].links[1].text = July24
    /\ Len(output_dir[index_name].links) = 2

====
